---- MODULE Spec2Model ----
(***************************************************************************)
(* State-machine model of the native shell of OpenWhisper                  *)
(* (src-tauri/src): the startup sequence of lib.rs, the global shortcut    *)
(* handlers of shortcuts.rs, the tray menu of tray.rs and the clipboard    *)
(* text injection of injection.rs.                                         *)
(*                                                                         *)
(* Strings that the code compares or trims (menu ids, language codes,      *)
(* event payloads) are sequences of one-character strings, so that         *)
(* trim_matches and == are computed, not assumed.                          *)
(***************************************************************************)
EXTENDS Integers, Sequences, FiniteSets, TLC

\* ------------------------------------------------------------------ bounds

\* Tray events (menu events, tray-icon events, inbound notifications) handled.
MaxTrayEvents == 2
\* Hotkey events delivered by the global-shortcut plugin.
MaxHotkeyEvents == 4
\* Threads of the UI layer that invoke inject_text, possibly at the same time.
NumCallers == 2

\* ------------------------------------------------------------ state variables

VARIABLES
    appState,       \* "starting" | "setup" | "running" | "exited" | "panicked" | "error"
    setupPc,        \* next step of the setup closure of run()
    panicMsg,       \* message of the panic that aborted startup, "" if none
    shortcuts,      \* key combinations with a registered handler
    failedShortcut, \* history: the combination whose registration failed, "" if none
    hotkeyLog,      \* history: hotkey events delivered, in order
    emitted,        \* history: calls of emit on the app handle, in order
    lang_items,     \* Vec<(String, CheckMenuItem)>: <<[code, checked], ...>>
    trayProgress,   \* fallible steps of create_tray completed
    trayBuilt,      \* the tray icon was built (handlers installed)
    listening,      \* the "language-changed" listener is registered
    window,         \* the "main" webview window, or Absent
    nTrayEvents,    \* history: tray events handled
    nLangClicks,    \* history: language-menu clicks handled
    lastEvent,      \* history: the tray event handled last
    lastSelection,  \* history: the language selection event handled last
    handlers,       \* per handler thread: the update_lang_checks loop it runs, if any
    pc,             \* per caller: where its inject_text call stands, "idle" if none
    call,           \* per caller: its current or last call (argument and history)
    result,         \* per caller: what its last call returned, "" if none or in progress
    clipboard,      \* text content of the system clipboard
    ENIGO           \* static ENIGO: Mutex<Option<Enigo>>: [holder, value]

startupVars == <<appState, setupPc, panicMsg, shortcuts, failedShortcut, trayProgress,
                 trayBuilt, listening>>
trayVars == <<lang_items, window, nTrayEvents, nLangClicks, lastEvent, lastSelection,
              handlers>>
injectVars == <<pc, call, result, clipboard, ENIGO>>
vars == <<startupVars, hotkeyLog, emitted, trayVars, injectVars>>

\* ------------------------------------------------------------------ strings

QUOTE == "\""

\* str::trim_matches(ch): strips every leading and every trailing ch.
RECURSIVE TrimStart(_, _)
TrimStart(s, ch) ==
    IF s # <<>> /\ Head(s) = ch THEN TrimStart(Tail(s), ch) ELSE s

RECURSIVE TrimEnd(_, _)
TrimEnd(s, ch) ==
    IF s # <<>> /\ s[Len(s)] = ch THEN TrimEnd(SubSeq(s, 1, Len(s) - 1), ch) ELSE s

TrimMatches(s, ch) == TrimEnd(TrimStart(s, ch), ch)

\* ------------------------------------------------------------------ catalog

LANGUAGES == <<
    << <<"f", "r">>, "Francais" >>,
    << <<"e", "n">>, "English" >>,
    << <<"e", "s">>, "Espanol" >>,
    << <<"d", "e">>, "Deutsch" >>,
    << <<"i", "t">>, "Italiano" >>,
    << <<"p", "t">>, "Portugues" >>,
    << <<"n", "l">>, "Nederlands" >>,
    << <<"p", "l">>, "Polski" >>,
    << <<"r", "u">>, "Russkij" >>,
    << <<"z", "h">>, "Zhongwen" >>,
    << <<"j", "a">>, "Nihongo" >>,
    << <<"k", "o">>, "Hangugeo" >>,
    << <<"a", "r">>, "Arabiya" >> >>

\* lang_codes: the codes of the catalog, in order.
lang_codes == [i \in 1..Len(LANGUAGES) |-> LANGUAGES[i][1]]

Codes == {lang_codes[i] : i \in 1..Len(lang_codes)}

DefaultCode == <<"f", "r">>

ID_open == <<"o", "p", "e", "n">>
ID_quit == <<"q", "u", "i", "t">>
ID_language == <<"l", "a", "n", "g", "u", "a", "g", "e">>

\* Ids a menu event can carry: the items of the menu, the submenu's own id
\* and ids of no item.
MenuIds == Codes \cup {ID_open, ID_quit, ID_language, <<"x", "x">>, <<>>}

\* Codes the UI layer may send: the catalog, and codes outside it.
ForeignCodes == {<<"x", "x">>, <<"F", "R">>, <<>>, <<"d", QUOTE, "e">>}
SentCodes == Codes \cup ForeignCodes

\* How the payload of "language-changed" carries the code: as a JSON string
\* (in double quotes), bare, quoted twice, or with one opening quote only.
Encodings == {"json", "bare", "twice", "open"}

Payload(code, enc) ==
    CASE enc = "json" -> <<QUOTE>> \o code \o <<QUOTE>>
      [] enc = "bare" -> code
      [] enc = "twice" -> <<QUOTE, QUOTE>> \o code \o <<QUOTE, QUOTE>>
      [] enc = "open" -> <<QUOTE>> \o code

\* -------------------------------------------------------------- notifications

\* One call of emit(name, payload); a unit payload () is has_payload = FALSE.
Notification(name, payload) == [name |-> name, has_payload |-> TRUE, payload |-> payload]
UnitNotification(name) == [name |-> name, has_payload |-> FALSE, payload |-> <<>>]

\* ------------------------------------------------------------------ window

Absent == [exists |-> FALSE, visible |-> FALSE, minimized |-> FALSE, focused |-> FALSE]

Window(v, m, f) == [exists |-> TRUE, visible |-> v, minimized |-> m, focused |-> f]

\* The main window as startup leaves it: not created, hidden in the tray,
\* or shown.
InitialWindows == {Absent, Window(FALSE, TRUE, FALSE), Window(TRUE, FALSE, TRUE)}

WindowOps == {"show", "unminimize", "set_focus"}

\* A variant of the reveal in which the first failing operation ends it.
RevealWindowStopsAtFailure(w, failing) ==
    IF ~w.exists THEN w
    ELSE [exists |-> TRUE,
          visible |-> IF "show" \in failing THEN w.visible ELSE TRUE,
          minimized |-> IF failing \cap {"show", "unminimize"} # {} THEN w.minimized ELSE FALSE,
          focused |-> IF failing # {} THEN w.focused ELSE TRUE]

\* window.show(); window.unminimize(); window.set_focus(): each result is
\* discarded, so an operation in `failing` has no effect and the next still runs.
RevealWindow(w, failing) ==
    IF ~w.exists THEN w
    ELSE [exists |-> TRUE,
          visible |-> IF "show" \in failing THEN w.visible ELSE TRUE,
          minimized |-> IF "unminimize" \in failing THEN w.minimized ELSE FALSE,
          focused |-> IF "set_focus" \in failing THEN w.focused ELSE TRUE]

\* ------------------------------------------------------------------ tray items

\* item.set_checked(code == selected) on the i-th item.
SetChecked(items, i, selected) ==
    [items EXCEPT ![i].checked = (items[i].code = selected)]

RECURSIVE UpdateLangChecksFrom(_, _, _)
UpdateLangChecksFrom(items, i, selected) ==
    IF i > Len(items) THEN items
    ELSE UpdateLangChecksFrom(SetChecked(items, i, selected), i + 1, selected)

\* A variant that checks the selected entry and leaves the others as they were.
UpdateLangChecksNoUncheck(items, selected) ==
    [i \in 1..Len(items) |->
        IF items[i].code = selected THEN [items[i] EXCEPT !.checked = TRUE] ELSE items[i]]

\* update_lang_checks: the loop over all items.
UpdateLangChecks(items, selected) == UpdateLangChecksFrom(items, 1, selected)

\* The first n items as create_tray's loop builds them: checked iff code == "fr".
BuiltItems(n) ==
    [i \in 1..n |-> [code |-> LANGUAGES[i][1], checked |-> (LANGUAGES[i][1] = DefaultCode)]]

CheckedCodes == {lang_items[i].code : i \in {j \in 1..Len(lang_items) : lang_items[j].checked}}

NumChecked == Cardinality({j \in 1..Len(lang_items) : lang_items[j].checked})

\* ------------------------------------------------------------------ injection data

Callers == 1..NumCallers

\* Arguments of inject_text: the empty string and two different texts.
Texts == {"", "a", "b"}

\* What the clipboard holds before the first injection.
InitialClipboard == "prev"

\* holder of the mutex when it is free.
NoHolder == 0

\* A caller's current call, or its last one once it returned: the argument, and
\* the call's history: whether a clipboard operation of it failed, whether it
\* wrote the clipboard, took the mutex, initialized the backend, and the calls
\* of enigo.key it made.
NoCall ==
    [text |-> "", clipFailed |-> FALSE, wrote |-> FALSE, locked |-> FALSE,
     inited |-> FALSE, keys |-> <<>>]

\* Threads on which the tray's handlers run: the event loop delivers menu
\* events, the thread that emits "language-changed" runs the listener.
HandlerThreads == {"h1", "h2"}

\* The update_lang_checks loop a handler thread runs, or ran last: the event
\* that started it, the code sent, the `selected` argument and the index of the
\* next item.
NoHandler ==
    [active |-> FALSE, kind |-> "none", code |-> <<>>, selected |-> <<>>, i |-> 1]

\* ------------------------------------------------------------------ initial state

NoEvent ==
    [kind |-> "none", id |-> <<>>, enc |-> "", button |-> "", button_state |-> "",
     failing |-> {}]
NoSelection == [src |-> "none", code |-> <<>>]

Init ==
    /\ appState = "starting"
    /\ setupPc = "build"
    /\ panicMsg = ""
    /\ shortcuts = {}
    /\ failedShortcut = ""
    /\ hotkeyLog = <<>>
    /\ emitted = <<>>
    /\ lang_items = <<>>
    /\ trayProgress = 0
    /\ trayBuilt = FALSE
    /\ listening = FALSE
    /\ window = Absent
    /\ nTrayEvents = 0
    /\ nLangClicks = 0
    /\ lastEvent = NoEvent
    /\ lastSelection = NoSelection
    /\ handlers = [h \in HandlerThreads |-> NoHandler]
    /\ pc = [t \in Callers |-> "idle"]
    /\ call = [t \in Callers |-> NoCall]
    /\ result = [t \in Callers |-> ""]
    /\ clipboard = InitialClipboard
    /\ ENIGO = [holder |-> NoHolder, value |-> "None"]

\* ------------------------------------------------------------------ startup

\* run(): tauri::Builder ... .run(context).expect(...). Building the app either
\* fails, and the expect panics, or reaches the setup closure.
BuildApp(ok) ==
    /\ appState = "starting"
    /\ IF ok
       THEN /\ appState' = "setup"
            /\ setupPc' = "register_shortcuts"
            /\ \E w \in InitialWindows : window' = w
            /\ UNCHANGED panicMsg
       ELSE /\ appState' = "panicked"
            /\ panicMsg' = "error while running tauri application"
            /\ UNCHANGED <<setupPc, window>>
    /\ UNCHANGED <<shortcuts, failedShortcut, trayProgress, trayBuilt, listening, hotkeyLog,
                   emitted, lang_items, nTrayEvents, nLangClicks, lastEvent, lastSelection,
                   handlers, injectVars>>

\* A variant of register_shortcuts that logs a failed registration and goes on.
RegisterShortcutsSwallow(okD, okT) ==
    /\ appState = "setup"
    /\ setupPc = "register_shortcuts"
    /\ shortcuts' = (IF okD THEN {"ctrl+shift+d"} ELSE {}) \cup (IF okT THEN {"ctrl+shift+t"} ELSE {})
    /\ failedShortcut' = IF ~okD THEN "ctrl+shift+d" ELSE IF ~okT THEN "ctrl+shift+t" ELSE ""
    /\ setupPc' = "create_tray"
    /\ UNCHANGED <<appState, panicMsg, trayProgress, trayBuilt, listening, hotkeyLog,
                   emitted, trayVars, injectVars>>

\* register_shortcuts: on_shortcut("ctrl+shift+d", ..).expect(..), then
\* on_shortcut("ctrl+shift+t", ..).expect(..). It returns (); a failed
\* registration panics in the expect, after the registrations before it.
RegisterShortcuts(okD, okT) ==
    /\ appState = "setup"
    /\ setupPc = "register_shortcuts"
    /\ IF ~okD
       THEN /\ appState' = "panicked"
            /\ panicMsg' = "failed to register Ctrl+Shift+D"
            /\ failedShortcut' = "ctrl+shift+d"
            /\ UNCHANGED <<shortcuts, setupPc>>
       ELSE IF ~okT
       THEN /\ appState' = "panicked"
            /\ panicMsg' = "failed to register Ctrl+Shift+T"
            /\ shortcuts' = {"ctrl+shift+d"}
            /\ failedShortcut' = "ctrl+shift+t"
            /\ UNCHANGED setupPc
       ELSE /\ shortcuts' = {"ctrl+shift+d", "ctrl+shift+t"}
            /\ setupPc' = "create_tray"
            /\ UNCHANGED <<appState, panicMsg, failedShortcut>>
    /\ UNCHANGED <<trayProgress, trayBuilt, listening, hotkeyLog, emitted, trayVars, injectVars>>

\* The fallible steps of create_tray, in order: open_item, quit_item, the
\* submenu, per language the check item and its append, the menu, the tray icon.
NumTraySteps == 3 + 2 * Len(LANGUAGES) + 2

\* Items pushed to lang_items once the first `done` steps have completed.
ItemsPushed(done) ==
    IF done <= 3 THEN 0
    ELSE IF (done - 3) \div 2 > Len(LANGUAGES) THEN Len(LANGUAGES)
    ELSE (done - 3) \div 2

\* A variant of the setup closure that goes on without a tray when
\* create_tray fails.
CreateTrayContinues(failAt, icon) ==
    /\ appState = "setup"
    /\ setupPc = "create_tray"
    /\ IF failAt = 0
       THEN /\ lang_items' = BuiltItems(Len(LANGUAGES))
            /\ trayProgress' = NumTraySteps
            /\ trayBuilt' = TRUE
            /\ listening' = TRUE
       ELSE /\ lang_items' = BuiltItems(ItemsPushed(failAt - 1))
            /\ trayProgress' = failAt - 1
            /\ UNCHANGED <<trayBuilt, listening>>
    /\ setupPc' = "ok"
    /\ UNCHANGED <<appState, panicMsg>>
    /\ UNCHANGED <<shortcuts, failedShortcut, hotkeyLog, emitted, window, nTrayEvents,
                   nLangClicks, lastEvent, lastSelection, handlers, injectVars>>

\* create_tray, and the expect of the setup closure on its result. failAt = 0:
\* every step succeeds, the listener is registered and Ok(()) is returned;
\* failAt = s: step s fails, `?` returns the error and the expect panics.
\* `icon`: the app has a default window icon; without one the unwrap before
\* the last step panics inside create_tray.
CreateTray(failAt, icon) ==
    /\ appState = "setup"
    /\ setupPc = "create_tray"
    /\ IF ~icon /\ failAt \in {0, NumTraySteps}
       THEN /\ lang_items' = BuiltItems(Len(LANGUAGES))
            /\ trayProgress' = NumTraySteps - 1
            /\ appState' = "panicked"
            /\ panicMsg' = "called Option::unwrap() on a None value"
            /\ UNCHANGED <<trayBuilt, listening, setupPc>>
       ELSE IF failAt = 0
       THEN /\ lang_items' = BuiltItems(Len(LANGUAGES))
            /\ trayProgress' = NumTraySteps
            /\ trayBuilt' = TRUE
            /\ listening' = TRUE
            /\ setupPc' = "ok"
            /\ UNCHANGED <<appState, panicMsg>>
       ELSE /\ lang_items' = BuiltItems(ItemsPushed(failAt - 1))
            /\ trayProgress' = failAt - 1
            /\ appState' = "panicked"
            /\ panicMsg' = "failed to create system tray"
            /\ UNCHANGED <<trayBuilt, listening, setupPc>>
    /\ UNCHANGED <<shortcuts, failedShortcut, hotkeyLog, emitted, window, nTrayEvents,
                   nLangClicks, lastEvent, lastSelection, handlers, injectVars>>

\* The setup closure returns Ok(()) and the event loop starts.
SetupOk ==
    /\ appState = "setup"
    /\ setupPc = "ok"
    /\ appState' = "running"
    /\ setupPc' = "done"
    /\ UNCHANGED <<panicMsg, shortcuts, failedShortcut, trayProgress, trayBuilt, listening,
                   hotkeyLog, emitted, trayVars, injectVars>>

Startup ==
    \/ \E ok \in BOOLEAN : BuildApp(ok)
    \/ \E okD \in BOOLEAN, okT \in BOOLEAN : RegisterShortcuts(okD, okT)
    \/ \E failAt \in 0..NumTraySteps, icon \in BOOLEAN : CreateTray(failAt, icon)
    \/ SetupOk

\* ------------------------------------------------------------------ shortcuts

ShortcutStates == {"Pressed", "Released"}

HotkeyEvent(combo, state) == [combo |-> combo, state |-> state]

\* A variant of the ctrl+shift+d handler without the test of event.state.
OnShortcutDAnyState(state) ==
    /\ appState = "running"
    /\ "ctrl+shift+d" \in shortcuts
    /\ Len(hotkeyLog) < MaxHotkeyEvents
    /\ hotkeyLog' = Append(hotkeyLog, HotkeyEvent("ctrl+shift+d", state))
    /\ emitted' = Append(emitted, UnitNotification("shortcut:toggle-dictation"))
    /\ UNCHANGED <<startupVars, trayVars, injectVars>>

\* The handler of ctrl+shift+d: emits only when event.state == Pressed; the
\* result of emit is printed, never propagated.
OnShortcutD(state) ==
    /\ appState = "running"
    /\ "ctrl+shift+d" \in shortcuts
    /\ Len(hotkeyLog) < MaxHotkeyEvents
    /\ hotkeyLog' = Append(hotkeyLog, HotkeyEvent("ctrl+shift+d", state))
    /\ emitted' = IF state = "Pressed"
                  THEN Append(emitted, UnitNotification("shortcut:toggle-dictation"))
                  ELSE emitted
    /\ UNCHANGED <<startupVars, trayVars, injectVars>>

\* The handler of ctrl+shift+t.
OnShortcutT(state) ==
    /\ appState = "running"
    /\ "ctrl+shift+t" \in shortcuts
    /\ Len(hotkeyLog) < MaxHotkeyEvents
    /\ hotkeyLog' = Append(hotkeyLog, HotkeyEvent("ctrl+shift+t", state))
    /\ emitted' = IF state = "Pressed"
                  THEN Append(emitted, UnitNotification("shortcut:toggle-transcription"))
                  ELSE emitted
    /\ UNCHANGED <<startupVars, trayVars, injectVars>>

Shortcuts ==
    \/ \E state \in ShortcutStates : OnShortcutD(state)
    \/ \E state \in ShortcutStates : OnShortcutT(state)

\* ------------------------------------------------------------------ tray

MenuEventOf(id) ==
    [kind |-> "menu", id |-> id, enc |-> "", button |-> "", button_state |-> "",
     failing |-> {}]

TrayIconEventOf(type, button, button_state) ==
    [kind |-> type, id |-> <<>>, enc |-> "", button |-> button, button_state |-> button_state,
     failing |-> {}]

LanguageChangedOf(code, enc) ==
    [kind |-> "language-changed", id |-> code, enc |-> enc, button |-> "", button_state |-> "",
     failing |-> {}]

\* No update_lang_checks loop is in progress on any handler thread.
NoHandlerRunning == \A h \in HandlerThreads : ~handlers[h].active

\* lang_codes.contains(&code.to_string())
IsLangCode(id) == \E i \in 1..Len(lang_codes) : lang_codes[i] = id

\* A variant of on_menu_event whose language arm has no guard: every id that
\* is neither "open" nor "quit" is taken as a language code.
OnMenuEventAnyCode(id, failing) ==
    /\ appState = "running"
    /\ trayBuilt
    /\ nTrayEvents < MaxTrayEvents
    /\ NoHandlerRunning
    /\ nTrayEvents' = nTrayEvents + 1
    /\ lastEvent' = [MenuEventOf(id) EXCEPT !.failing = failing]
    /\ IF id = ID_open
       THEN /\ window' = RevealWindow(window, failing)
            /\ UNCHANGED <<appState, lang_items, emitted, nLangClicks, lastSelection>>
       ELSE IF id = ID_quit
       THEN /\ appState' = "exited"
            /\ UNCHANGED <<window, lang_items, emitted, nLangClicks, lastSelection>>
       ELSE /\ lang_items' = UpdateLangChecks(lang_items, id)
            /\ emitted' = Append(emitted, Notification("tray:language-changed", id))
            /\ nLangClicks' = nLangClicks + 1
            /\ lastSelection' = [src |-> "menu", code |-> id]
            /\ UNCHANGED <<appState, window>>
    /\ UNCHANGED <<setupPc, panicMsg, shortcuts, failedShortcut, trayProgress, trayBuilt,
                   listening, hotkeyLog, handlers, injectVars>>

\* on_menu_event: match id { "open", "quit", code if lang_codes.contains, _ }.
\* `failing` is the set of window operations whose result is an error.
OnMenuEvent(id, failing) ==
    /\ appState = "running"
    /\ trayBuilt
    /\ nTrayEvents < MaxTrayEvents
    /\ NoHandlerRunning
    /\ nTrayEvents' = nTrayEvents + 1
    /\ lastEvent' = [MenuEventOf(id) EXCEPT !.failing = failing]
    /\ IF id = ID_open
       THEN /\ window' = RevealWindow(window, failing)
            /\ UNCHANGED <<appState, lang_items, emitted, nLangClicks, lastSelection>>
       ELSE IF id = ID_quit
       THEN /\ appState' = "exited"
            /\ UNCHANGED <<window, lang_items, emitted, nLangClicks, lastSelection>>
       ELSE IF IsLangCode(id)
       THEN /\ lang_items' = UpdateLangChecks(lang_items, id)
            /\ emitted' = Append(emitted, Notification("tray:language-changed", id))
            /\ nLangClicks' = nLangClicks + 1
            /\ lastSelection' = [src |-> "menu", code |-> id]
            /\ UNCHANGED <<appState, window>>
       ELSE UNCHANGED <<appState, window, lang_items, emitted, nLangClicks, lastSelection>>
    /\ UNCHANGED <<setupPc, panicMsg, shortcuts, failedShortcut, trayProgress, trayBuilt,
                   listening, hotkeyLog, handlers, injectVars>>

TrayIconEventTypes == {"Click", "DoubleClick", "Enter", "Move", "Leave"}
MouseButtons == {"Left", "Right", "Middle"}
MouseButtonStates == {"Up", "Down"}

\* on_tray_icon_event: reveals the window on Click { Left, Up } only.
OnTrayIconEvent(type, button, button_state, failing) ==
    /\ appState = "running"
    /\ trayBuilt
    /\ nTrayEvents < MaxTrayEvents
    /\ NoHandlerRunning
    /\ nTrayEvents' = nTrayEvents + 1
    /\ lastEvent' = [TrayIconEventOf(type, button, button_state) EXCEPT !.failing = failing]
    /\ window' = IF type = "Click" /\ button = "Left" /\ button_state = "Up"
                 THEN RevealWindow(window, failing)
                 ELSE window
    /\ UNCHANGED <<startupVars, hotkeyLog, emitted, lang_items, nLangClicks, lastSelection,
                   handlers, injectVars>>

\* A variant of the listener that echoes the code back to the UI layer.
OnLanguageChangedEcho(code, enc) ==
    /\ appState = "running"
    /\ listening
    /\ nTrayEvents < MaxTrayEvents
    /\ NoHandlerRunning
    /\ nTrayEvents' = nTrayEvents + 1
    /\ lastEvent' = LanguageChangedOf(code, enc)
    /\ lastSelection' = [src |-> "language-changed", code |-> code]
    /\ lang_items' = UpdateLangChecks(lang_items, TrimMatches(Payload(code, enc), QUOTE))
    /\ emitted' = Append(emitted, Notification("tray:language-changed",
                                               TrimMatches(Payload(code, enc), QUOTE)))
    /\ UNCHANGED <<startupVars, hotkeyLog, window, nLangClicks, handlers, injectVars>>

\* The "language-changed" listener: the UI layer sent `code` as Payload(code, enc);
\* the handler trims the quotes off the payload and updates the check marks.
OnLanguageChanged(code, enc) ==
    /\ appState = "running"
    /\ listening
    /\ nTrayEvents < MaxTrayEvents
    /\ NoHandlerRunning
    /\ nTrayEvents' = nTrayEvents + 1
    /\ lastEvent' = LanguageChangedOf(code, enc)
    /\ lastSelection' = [src |-> "language-changed", code |-> code]
    /\ lang_items' = UpdateLangChecks(lang_items, TrimMatches(Payload(code, enc), QUOTE))
    /\ UNCHANGED <<startupVars, hotkeyLog, emitted, window, nLangClicks, handlers, injectVars>>

\* The sets of window operations that can fail while an event is handled:
\* none where the handler touches no window.
Failures(reveals) == IF reveals THEN SUBSET WindowOps ELSE {{}}

Tray ==
    \/ \E id \in MenuIds : \E failing \in Failures(id = ID_open) :
            OnMenuEvent(id, failing)
    \/ \E type \in TrayIconEventTypes, button \in MouseButtons,
          button_state \in MouseButtonStates :
            \E failing \in Failures(type = "Click" /\ button = "Left" /\ button_state = "Up") :
                OnTrayIconEvent(type, button, button_state, failing)
    \/ \E code \in SentCodes, enc \in Encodings : OnLanguageChanged(code, enc)

\* ---------------------------------------------------- tray, handlers in parallel

\* Codes selected where two handlers run at the same time: the first, the
\* second and the last entry of the catalog.
ConcurrentCodes == {<<"f", "r">>, <<"e", "n">>, <<"a", "r">>}

\* on_menu_event on thread h, id a language code: the arm calls
\* update_lang_checks(&lang_items_for_menu, code), whose loop starts.
BeginMenuEvent(h, id) ==
    /\ appState = "running"
    /\ trayBuilt
    /\ nTrayEvents < MaxTrayEvents
    /\ ~handlers[h].active
    /\ IsLangCode(id)
    /\ nTrayEvents' = nTrayEvents + 1
    /\ lastEvent' = MenuEventOf(id)
    /\ handlers' = [handlers EXCEPT ![h] =
            [active |-> TRUE, kind |-> "menu", code |-> id, selected |-> id, i |-> 1]]
    /\ UNCHANGED <<startupVars, hotkeyLog, emitted, lang_items, window, nLangClicks,
                   lastSelection, injectVars>>

\* The "language-changed" listener on thread h: the payload is trimmed and
\* update_lang_checks(&lang_items_for_listen, code) starts.
BeginLanguageChanged(h, code, enc) ==
    /\ appState = "running"
    /\ listening
    /\ nTrayEvents < MaxTrayEvents
    /\ ~handlers[h].active
    /\ nTrayEvents' = nTrayEvents + 1
    /\ lastEvent' = LanguageChangedOf(code, enc)
    /\ handlers' = [handlers EXCEPT ![h] =
            [active |-> TRUE, kind |-> "language-changed", code |-> code,
             selected |-> TrimMatches(Payload(code, enc), QUOTE), i |-> 1]]
    /\ UNCHANGED <<startupVars, hotkeyLog, emitted, lang_items, window, nLangClicks,
                   lastSelection, injectVars>>

\* One iteration of update_lang_checks on thread h: set_checked on the next
\* item. Both closures hold clones of the same ref-counted items, and nothing
\* orders the iterations of one loop with those of another.
SetCheckedCall(h) ==
    /\ handlers[h].active
    /\ handlers[h].i <= Len(lang_items)
    /\ lang_items' = SetChecked(lang_items, handlers[h].i, handlers[h].selected)
    /\ handlers' = [handlers EXCEPT ![h].i = @ + 1]
    /\ UNCHANGED <<startupVars, hotkeyLog, emitted, window, nTrayEvents, nLangClicks,
                   lastEvent, lastSelection, injectVars>>

\* The loop of thread h is over: the menu arm emits "tray:language-changed",
\* the listener just returns.
EndHandler(h) ==
    /\ handlers[h].active
    /\ handlers[h].i > Len(lang_items)
    /\ handlers' = [handlers EXCEPT ![h].active = FALSE]
    /\ lastSelection' = [src |-> handlers[h].kind, code |-> handlers[h].code]
    /\ IF handlers[h].kind = "menu"
       THEN /\ emitted' = Append(emitted, Notification("tray:language-changed",
                                                       handlers[h].selected))
            /\ nLangClicks' = nLangClicks + 1
       ELSE UNCHANGED <<emitted, nLangClicks>>
    /\ UNCHANGED <<startupVars, hotkeyLog, lang_items, window, nTrayEvents, lastEvent,
                   injectVars>>

TrayConcurrent ==
    \/ \E h \in HandlerThreads, id \in ConcurrentCodes : BeginMenuEvent(h, id)
    \/ \E h \in HandlerThreads, code \in ConcurrentCodes : BeginLanguageChanged(h, code, "json")
    \/ \E h \in HandlerThreads : SetCheckedCall(h)
    \/ \E h \in HandlerThreads : EndHandler(h)

\* ------------------------------------------------------------------ injection

nonInjectVars == <<startupVars, hotkeyLog, emitted, trayVars>>

\* inject_text returns r on thread t; c is the call as it ends.
Return(t, c, r) ==
    /\ result' = [result EXCEPT ![t] = r]
    /\ pc' = [pc EXCEPT ![t] = "idle"]
    /\ call' = [call EXCEPT ![t] = c]

\* A variant of the guard's drop that also clears the singleton.
UnlockedAndCleared == [holder |-> NoHolder, value |-> "None"]

\* The MutexGuard is dropped.
Unlocked == [ENIGO EXCEPT !.holder = NoHolder]

\* The UI layer invokes inject_text(text) on thread t.
InjectText(t, text) ==
    /\ appState = "running"
    /\ pc[t] = "idle"
    /\ pc' = [pc EXCEPT ![t] = "open_clipboard"]
    /\ call' = [call EXCEPT ![t] = [NoCall EXCEPT !.text = text]]
    /\ result' = [result EXCEPT ![t] = ""]
    /\ UNCHANGED <<clipboard, ENIGO>>
    /\ UNCHANGED nonInjectVars

\* Clipboard::new().map_err(..)?
OpenClipboard(t, ok) ==
    /\ pc[t] = "open_clipboard"
    /\ IF ok
       THEN /\ pc' = [pc EXCEPT ![t] = "set_text"]
            /\ UNCHANGED <<call, result>>
       ELSE Return(t, [call[t] EXCEPT !.clipFailed = TRUE], "Failed to open clipboard")
    /\ UNCHANGED <<clipboard, ENIGO>>
    /\ UNCHANGED nonInjectVars

\* A variant of set_text's call site that discards the error and goes on.
SetTextIgnoreError(t, ok) ==
    /\ pc[t] = "set_text"
    /\ pc' = [pc EXCEPT ![t] = "sleep5"]
    /\ IF ok
       THEN /\ clipboard' = call[t].text
            /\ call' = [call EXCEPT ![t].wrote = TRUE]
       ELSE /\ call' = [call EXCEPT ![t].clipFailed = TRUE]
            /\ UNCHANGED clipboard
    /\ UNCHANGED <<result, ENIGO>>
    /\ UNCHANGED nonInjectVars

\* clipboard.set_text(text).map_err(..)?: a failed write leaves the clipboard
\* as it was.
SetText(t, ok) ==
    /\ pc[t] = "set_text"
    /\ IF ok
       THEN /\ clipboard' = call[t].text
            /\ pc' = [pc EXCEPT ![t] = "sleep5"]
            /\ call' = [call EXCEPT ![t].wrote = TRUE]
            /\ UNCHANGED result
       ELSE /\ Return(t, [call[t] EXCEPT !.clipFailed = TRUE], "Failed to set clipboard")
            /\ UNCHANGED clipboard
    /\ UNCHANGED ENIGO
    /\ UNCHANGED nonInjectVars

\* thread::sleep(Duration::from_millis(5)) returns.
Sleep5(t) ==
    /\ pc[t] = "sleep5"
    /\ pc' = [pc EXCEPT ![t] = "get_enigo"]
    /\ UNCHANGED <<call, result, clipboard, ENIGO>>
    /\ UNCHANGED nonInjectVars

\* A variant of get_enigo that does not wait for the mutex.
GetEnigoNoWait(t, ok) ==
    /\ pc[t] = "get_enigo"
    /\ IF ENIGO.value = "None" /\ ~ok
       THEN /\ Return(t, [call[t] EXCEPT !.locked = TRUE], "Failed to init enigo")
            /\ UNCHANGED ENIGO
       ELSE /\ ENIGO' = [holder |-> t, value |-> "Some"]
            /\ pc' = [pc EXCEPT ![t] = "press"]
            /\ call' = [call EXCEPT ![t].locked = TRUE,
                                    ![t].inited = (ENIGO.value = "None")]
            /\ UNCHANGED result
    /\ UNCHANGED clipboard
    /\ UNCHANGED nonInjectVars

\* A variant of get_enigo whose failed Enigo::new leaves the mutex locked.
GetEnigoKeepsGuardOnError(t, ok) ==
    /\ pc[t] = "get_enigo"
    /\ ENIGO.holder = NoHolder
    /\ IF ENIGO.value = "None" /\ ~ok
       THEN /\ Return(t, [call[t] EXCEPT !.locked = TRUE], "Failed to init enigo")
            /\ ENIGO' = [ENIGO EXCEPT !.holder = t]
       ELSE /\ ENIGO' = [holder |-> t, value |-> "Some"]
            /\ pc' = [pc EXCEPT ![t] = "press"]
            /\ call' = [call EXCEPT ![t].locked = TRUE,
                                    ![t].inited = (ENIGO.value = "None")]
            /\ UNCHANGED result
    /\ UNCHANGED clipboard
    /\ UNCHANGED nonInjectVars

\* get_enigo()?: ENIGO.lock() blocks while another call holds the guard; with
\* the guard held, a None is replaced by Some(Enigo::new(..)?); a failed
\* Enigo::new returns the error and drops the guard with the None in place.
\* (No code panics with the guard held, so the mutex is never poisoned.)
GetEnigo(t, ok) ==
    /\ pc[t] = "get_enigo"
    /\ ENIGO.holder = NoHolder
    /\ IF ENIGO.value = "None" /\ ~ok
       THEN /\ Return(t, [call[t] EXCEPT !.locked = TRUE], "Failed to init enigo")
            /\ UNCHANGED ENIGO
       ELSE /\ ENIGO' = [holder |-> t, value |-> "Some"]
            /\ pc' = [pc EXCEPT ![t] = "press"]
            /\ call' = [call EXCEPT ![t].locked = TRUE,
                                    ![t].inited = (ENIGO.value = "None")]
            /\ UNCHANGED result
    /\ UNCHANGED clipboard
    /\ UNCHANGED nonInjectVars

KeyCall(key, ok) == [key |-> key, ok |-> ok]

\* A variant of the key calls that goes on to the next step after an error.
SendKeyNoAbort(t, key, ok, next, error) ==
    /\ pc' = [pc EXCEPT ![t] = next]
    /\ call' = [call EXCEPT ![t].keys = Append(@, KeyCall(key, ok))]
    /\ UNCHANGED <<ENIGO, result>>

\* One enigo.key(..).map_err(..)? with the guard held: Ok goes on to `next`,
\* an error returns at once and drops the guard.
SendKey(t, key, ok, next, error) ==
    IF ok
    THEN /\ pc' = [pc EXCEPT ![t] = next]
         /\ call' = [call EXCEPT ![t].keys = Append(@, KeyCall(key, ok))]
         /\ UNCHANGED <<ENIGO, result>>
    ELSE /\ Return(t, [call[t] EXCEPT !.keys = Append(@, KeyCall(key, ok))], error)
         /\ ENIGO' = Unlocked

\* enigo.key(Key::Control, Direction::Press)
PressCtrl(t, ok) ==
    /\ pc[t] = "press"
    /\ SendKey(t, "ctrl_press", ok, "click", "Ctrl press failed")
    /\ UNCHANGED clipboard
    /\ UNCHANGED nonInjectVars

\* enigo.key(Key::Unicode('v'), Direction::Click)
ClickV(t, ok) ==
    /\ pc[t] = "click"
    /\ SendKey(t, "v_click", ok, "release", "V click failed")
    /\ UNCHANGED clipboard
    /\ UNCHANGED nonInjectVars

\* enigo.key(Key::Control, Direction::Release)
ReleaseCtrl(t, ok) ==
    /\ pc[t] = "release"
    /\ SendKey(t, "ctrl_release", ok, "sleep10", "Ctrl release failed")
    /\ UNCHANGED clipboard
    /\ UNCHANGED nonInjectVars

\* A variant of the successful return that keeps the guard.
Sleep10ReturnOkKeepsGuard(t) ==
    /\ pc[t] = "sleep10"
    /\ Return(t, call[t], "Ok")
    /\ UNCHANGED ENIGO
    /\ UNCHANGED clipboard
    /\ UNCHANGED nonInjectVars

\* thread::sleep(Duration::from_millis(10)) returns, then Ok(()): the guard is
\* dropped at the end of the function.
Sleep10ReturnOk(t) ==
    /\ pc[t] = "sleep10"
    /\ Return(t, call[t], "Ok")
    /\ ENIGO' = Unlocked
    /\ UNCHANGED clipboard
    /\ UNCHANGED nonInjectVars

\* Enigo::new is attempted only while the singleton is None.
InitOutcomes == IF ENIGO.value = "None" THEN BOOLEAN ELSE {TRUE}

Inject ==
    \/ \E t \in Callers, text \in Texts : InjectText(t, text)
    \/ \E t \in Callers, ok \in BOOLEAN : OpenClipboard(t, ok)
    \/ \E t \in Callers, ok \in BOOLEAN : SetText(t, ok)
    \/ \E t \in Callers : Sleep5(t)
    \/ \E t \in Callers : \E ok \in InitOutcomes : GetEnigo(t, ok)
    \/ \E t \in Callers, ok \in BOOLEAN : PressCtrl(t, ok)
    \/ \E t \in Callers, ok \in BOOLEAN : ClickV(t, ok)
    \/ \E t \in Callers, ok \in BOOLEAN : ReleaseCtrl(t, ok)
    \/ \E t \in Callers : Sleep10ReturnOk(t)

\* ------------------------------------------------------------------ specifications

NextShortcuts == Startup \/ Shortcuts
NextTray == Startup \/ Tray
NextTrayConcurrent == TrayConcurrent
NextInject == Inject
Next == Startup \/ Shortcuts \/ Tray \/ TrayConcurrent \/ Inject

\* The state once startup has succeeded and the event loop runs, with the
\* main window shown: from then on the UI layer can invoke inject_text.
InitRunning ==
    /\ appState = "running"
    /\ setupPc = "done"
    /\ panicMsg = ""
    /\ shortcuts = {"ctrl+shift+d", "ctrl+shift+t"}
    /\ failedShortcut = ""
    /\ hotkeyLog = <<>>
    /\ emitted = <<>>
    /\ lang_items = BuiltItems(Len(LANGUAGES))
    /\ trayProgress = NumTraySteps
    /\ trayBuilt = TRUE
    /\ listening = TRUE
    /\ window = Window(TRUE, FALSE, TRUE)
    /\ nTrayEvents = 0
    /\ nLangClicks = 0
    /\ lastEvent = NoEvent
    /\ lastSelection = NoSelection
    /\ handlers = [h \in HandlerThreads |-> NoHandler]
    /\ pc = [t \in Callers |-> "idle"]
    /\ call = [t \in Callers |-> NoCall]
    /\ result = [t \in Callers |-> ""]
    /\ clipboard = InitialClipboard
    /\ ENIGO = [holder |-> NoHolder, value |-> "None"]

\* The components share no state. The shortcut handlers and the tray are
\* checked from process start; inject_text from the running application.
SpecShortcuts == Init /\ [][NextShortcuts]_vars
SpecTray == Init /\ [][NextTray]_vars
SpecTrayConcurrent == InitRunning /\ [][NextTrayConcurrent]_vars
SpecInject == InitRunning /\ [][NextInject]_vars

\* Scheduling of the threads that run inject_text. A thread that is not
\* blocked goes on: each step of a call other than the lock is taken in the
\* end, whichever way it turns out. A thread blocked in ENIGO.lock() is
\* woken when the mutex is free and takes it in the end if the mutex is free
\* again and again (no caller is passed over for ever).
CallerProgress(t) ==
    \/ \E ok \in BOOLEAN : OpenClipboard(t, ok)
    \/ \E ok \in BOOLEAN : SetText(t, ok)
    \/ Sleep5(t)
    \/ \E ok \in BOOLEAN : PressCtrl(t, ok)
    \/ \E ok \in BOOLEAN : ClickV(t, ok)
    \/ \E ok \in BOOLEAN : ReleaseCtrl(t, ok)
    \/ Sleep10ReturnOk(t)

TakeLock(t) == \E ok \in InitOutcomes : GetEnigo(t, ok)

FairInject == \A t \in Callers : WF_vars(CallerProgress(t)) /\ SF_vars(TakeLock(t))

SpecInjectFair == InitRunning /\ [][NextInject]_vars /\ FairInject
Spec == Init /\ [][Next]_vars

\* ==================================================================== claims

\* ---- tray: checked-language state

TrayEmissions == SelectSeq(emitted, LAMBDA n : n.name = "tray:language-changed")

OnlyChecked(items, code) ==
    /\ Len(items) = Len(LANGUAGES)
    /\ \A i \in 1..Len(items) : items[i].checked <=> (items[i].code = code)
    /\ Cardinality({i \in 1..Len(items) : items[i].checked}) = 1

\* C1: once create_tray has built the menu, after any sequence of tray menu
\* clicks and inbound "language-changed" notifications with arbitrary payloads,
\* exactly one of the 13 language entries is checked.
C1_ExactlyOneChecked ==
    trayBuilt => (Len(lang_items) = 13 /\ NumChecked = 1)

\* C2: the code of the checked entry equals the code carried by the selection
\* event handled last (a language-menu click or an inbound notification), and
\* no other event changes the checked state: before any selection event the
\* checked entry is still the default one, whatever other events were handled.
C2_CheckedIsLastSelection ==
    trayBuilt =>
        CheckedCodes = {IF lastSelection.src = "none" THEN DefaultCode ELSE lastSelection.code}

\* C3: handling a tray menu click with a catalog code X leaves X checked and
\* the other 12 entries unchecked, and emits exactly one "tray:language-changed"
\* notification, with payload X.
C3_MenuClickSelects ==
    [][\A X \in Codes :
        (nTrayEvents' = nTrayEvents + 1 /\ lastEvent' = MenuEventOf(X)) =>
            /\ OnlyChecked(lang_items', X)
            /\ emitted' = Append(emitted, Notification("tray:language-changed", X))]_vars

\* C3 witness: a click on "de" handled as the second event, after an inbound
\* notification changed the checked state.
C3_Witness ==
    /\ nTrayEvents = 2
    /\ lastEvent = MenuEventOf(<<"d", "e">>)
    /\ lastSelection = [src |-> "menu", code |-> <<"d", "e">>]
    /\ nLangClicks = 1
    /\ OnlyChecked(lang_items, <<"d", "e">>)
    /\ emitted = <<Notification("tray:language-changed", <<"d", "e">>)>>

\* C4: an inbound "language-changed" whose payload is a catalog code C in double
\* quotes leaves C checked (and nothing else); handling an inbound notification
\* emits nothing; so the "tray:language-changed" emissions are as many as the
\* language-menu clicks handled.
C4_InboundNoEcho ==
    [][/\ \A c \in SentCodes, enc \in Encodings :
            (nTrayEvents' = nTrayEvents + 1 /\ lastEvent' = LanguageChangedOf(c, enc)) =>
                /\ emitted' = emitted
                /\ (c \in Codes /\ enc = "json") => OnlyChecked(lang_items', c)
       /\ Len(TrayEmissions') = nLangClicks']_vars

\* C4 witness: a language click, then the inbound payload "de" in quotes: "de"
\* is checked and the one emission is still the click's.
C4_Witness ==
    /\ nTrayEvents = 2
    /\ lastEvent = LanguageChangedOf(<<"d", "e">>, "json")
    /\ nLangClicks = 1
    /\ Len(emitted) = 1
    /\ emitted[1].payload = <<"e", "n">>
    /\ OnlyChecked(lang_items, <<"d", "e">>)

\* ---- startup and shortcuts

\* C9 as stated: a hotkey registration that fails makes startup end with an
\* error value returned to the caller, not with a panic.
C9_RegistrationFailureReturnsError ==
    failedShortcut # "" => appState = "error"

PanicMessageOf(combo) ==
    IF combo = "ctrl+shift+d" THEN "failed to register Ctrl+Shift+D"
    ELSE "failed to register Ctrl+Shift+T"

\* C9 amended: a hotkey registration that fails aborts startup with a panic
\* whose message is fixed by the combination; startup never continues past
\* it, so the application is never running and no tray is built, and a
\* running application has both combinations registered.
C9_RegistrationFailurePanics ==
    /\ failedShortcut # "" =>
        /\ appState = "panicked"
        /\ panicMsg = PanicMessageOf(failedShortcut)
        /\ setupPc = "register_shortcuts"
        /\ ~trayBuilt /\ ~listening /\ trayProgress = 0
        /\ hotkeyLog = <<>> /\ emitted = <<>>
    /\ appState \in {"running", "exited"} => shortcuts = {"ctrl+shift+d", "ctrl+shift+t"}

\* C9 witness: ctrl+shift+t could not be registered after ctrl+shift+d was.
C9_Witness ==
    /\ failedShortcut = "ctrl+shift+t"
    /\ shortcuts = {"ctrl+shift+d"}
    /\ appState = "panicked"

ShortcutNotificationOf(combo) ==
    IF combo = "ctrl+shift+d" THEN UnitNotification("shortcut:toggle-dictation")
    ELSE UnitNotification("shortcut:toggle-transcription")

RECURSIVE ExpectedShortcutEmissions(_)
ExpectedShortcutEmissions(log) ==
    IF log = <<>> THEN <<>>
    ELSE (IF Head(log).state = "Pressed" THEN <<ShortcutNotificationOf(Head(log).combo)>> ELSE <<>>)
         \o ExpectedShortcutEmissions(Tail(log))

ShortcutEmissions ==
    SelectSeq(emitted, LAMBDA n : n.name \in {"shortcut:toggle-dictation",
                                              "shortcut:toggle-transcription"})

CountOf(seq, x) == Cardinality({i \in 1..Len(seq) : seq[i] = x})

\* C10: every Pressed event of ctrl+shift+d emits one "shortcut:toggle-dictation"
\* and every Pressed event of ctrl+shift+t one "shortcut:toggle-transcription",
\* without payload and in the order of the events; a Released event emits
\* nothing; so each name is emitted as often as its combination was pressed.
C10_PressedEmitsOnce ==
    /\ ShortcutEmissions = ExpectedShortcutEmissions(hotkeyLog)
    /\ CountOf(emitted, UnitNotification("shortcut:toggle-dictation"))
         = CountOf(hotkeyLog, HotkeyEvent("ctrl+shift+d", "Pressed"))
    /\ CountOf(emitted, UnitNotification("shortcut:toggle-transcription"))
         = CountOf(hotkeyLog, HotkeyEvent("ctrl+shift+t", "Pressed"))
    /\ \A i \in 1..Len(ShortcutEmissions) : ~ShortcutEmissions[i].has_payload

\* C10 witness: d pressed and released, then t pressed: two emissions.
C10_Witness ==
    /\ hotkeyLog = <<HotkeyEvent("ctrl+shift+d", "Pressed"),
                     HotkeyEvent("ctrl+shift+d", "Released"),
                     HotkeyEvent("ctrl+shift+t", "Pressed")>>
    /\ emitted = <<UnitNotification("shortcut:toggle-dictation"),
                   UnitNotification("shortcut:toggle-transcription")>>

\* ---- injection

SynthesisPcs == {"press", "click", "release"}

\* Caller u makes a call of enigo.key in this step.
KeyStep(u) == pc[u] \in SynthesisPcs /\ pc'[u] # pc[u]

\* C5: between a call's Ctrl press and the end of its synthesis (its Ctrl
\* release or the key call that failed) no other call sends a key event,
\* however many calls run at once.
C5_SynthesisNotInterleaved ==
    [][\A t \in Callers, u \in Callers :
        (t # u /\ pc[t] \in {"click", "release"} /\ call[t].keys # <<>>) => ~KeyStep(u)]_vars

\* C5 witness: one caller has pressed Ctrl and not yet clicked 'v' while
\* another, its clipboard written, waits for the mutex.
C5_Witness ==
    \E t \in Callers, u \in Callers :
        /\ t # u
        /\ pc[t] = "click" /\ call[t].keys = <<KeyCall("ctrl_press", TRUE)>>
        /\ pc[u] = "get_enigo" /\ call[u].wrote
        /\ ENIGO.holder = t

\* Between its clipboard write and its return.
InFlight(t) == pc[t] \in {"sleep5", "get_enigo", "press", "click", "release", "sleep10"}

\* Caller u makes an injection step: it writes the clipboard, takes the
\* mutex or calls enigo.key.
InjectionStep(u) ==
    \/ pc[u] = "set_text" /\ pc'[u] = "sleep5"
    \/ pc[u] = "get_enigo" /\ pc'[u] # pc[u]
    \/ KeyStep(u)

\* C6: while one call is between its clipboard write and its return (the two
\* pauses included), no other call makes an injection step, its own
\* clipboard write included: it waits until the first has returned.
C6_WholeCallSerialized ==
    [][\A t \in Callers, u \in Callers :
        (t # u /\ InFlight(t)) => ~InjectionStep(u)]_vars

\* C7: when inject_text(s) returns Ok, the clipboard holds s, also with other
\* calls running at the same time.
C7_ClipboardIsTextOnOk ==
    [][\A t \in Callers :
        (pc[t] # "idle" /\ pc'[t] = "idle" /\ result'[t] = "Ok") =>
            clipboard' = call'[t].text]_vars

ClipboardErrors == {"Failed to open clipboard", "Failed to set clipboard"}

\* C8: a call whose clipboard cannot be opened or written returns an error at
\* that step; the step leaves the clipboard and the singleton as they were,
\* and the call has written no clipboard, sent no key, and neither locked nor
\* initialized the singleton.
C8_ClipboardFailure ==
    [][\A t \in Callers :
        call'[t].clipFailed =>
            /\ pc'[t] = "idle"
            /\ result'[t] \in ClipboardErrors
            /\ ~call'[t].wrote /\ ~call'[t].locked /\ ~call'[t].inited
            /\ call'[t].keys = <<>>
            /\ pc[t] # "idle" => (clipboard' = clipboard /\ ENIGO' = ENIGO)]_vars

\* C8 witness: inject_text("b") failed to write the clipboard, which still
\* holds the "a" of an earlier call, while the backend was never touched.
C8_Witness ==
    \E t \in Callers :
        /\ call[t].clipFailed /\ call[t].text = "b"
        /\ result[t] = "Failed to set clipboard"
        /\ clipboard = "a"
        /\ ENIGO = [holder |-> NoHolder, value |-> "None"]

\* Caller t leaves get_enigo in this step (with the guard or with an error).
LeavesGetEnigo(t) == pc[t] = "get_enigo" /\ pc'[t] # "get_enigo"

\* C11: a call whose backend initialization fails returns an error without
\* having sent a key event, with the lock free and the singleton still
\* uninitialized; every call that reaches get_enigo while the singleton is
\* uninitialized attempts the initialization again, and when it succeeds the
\* call holds the backend and goes on to the Ctrl press.
C11_InitFailureRetried ==
    [][\A t \in Callers :
        /\ (pc[t] # "idle" /\ result'[t] = "Failed to init enigo") =>
                /\ pc[t] = "get_enigo" /\ pc'[t] = "idle"
                /\ ENIGO.value = "None"
                /\ call'[t].keys = <<>> /\ ~call'[t].inited
                /\ ENIGO' = [holder |-> NoHolder, value |-> "None"]
        /\ (LeavesGetEnigo(t) /\ ENIGO.value = "None") =>
                \/ result'[t] = "Failed to init enigo"
                \/ /\ pc'[t] = "press" /\ call'[t].inited /\ result'[t] = ""
                   /\ ENIGO' = [holder |-> t, value |-> "Some"]]_vars

AllKeysSent ==
    <<KeyCall("ctrl_press", TRUE), KeyCall("v_click", TRUE), KeyCall("ctrl_release", TRUE)>>

\* C11 witness: one call failed to initialize the backend; a later call
\* initialized it and injected.
C11_Witness ==
    \E t \in Callers, u \in Callers :
        /\ t # u
        /\ pc[t] = "idle" /\ result[t] = "Failed to init enigo" /\ call[t].keys = <<>>
        /\ result[u] = "Ok" /\ call[u].inited /\ call[u].keys = AllKeysSent
        /\ ENIGO = [holder |-> NoHolder, value |-> "Some"]

KeyOrder == <<"ctrl_press", "v_click", "ctrl_release">>
KeyErrors == <<"Ctrl press failed", "V click failed", "Ctrl release failed">>

\* C12: the key calls of one call are a prefix of Ctrl press, 'v' click, Ctrl
\* release, made after its clipboard write and with the lock taken; a failed
\* key call is the last of its call (nothing is sent after it, no release
\* after a failed 'v' click), the call has returned that step's error, and a
\* call that has returned does not hold the lock.
C12_KeyOrderAndAbort ==
    \A t \in Callers :
        LET k == call[t].keys IN
        /\ Len(k) <= Len(KeyOrder)
        /\ \A i \in 1..Len(k) : k[i].key = KeyOrder[i] /\ (i < Len(k) => k[i].ok)
        /\ k # <<>> => (call[t].wrote /\ call[t].locked)
        /\ (k # <<>> /\ ~k[Len(k)].ok) =>
                (pc[t] = "idle" /\ result[t] = KeyErrors[Len(k)])
        /\ pc[t] = "click" => (Len(k) = 1 /\ k[1].ok)
        /\ pc[t] = "release" => (Len(k) = 2 /\ k[2].ok)
        /\ pc[t] = "sleep10" => k = AllKeysSent
        /\ result[t] = "Ok" => k = AllKeysSent
        /\ pc[t] = "idle" => ENIGO.holder # t

\* C12 witness: the 'v' click of one call failed after its Ctrl press: no
\* release was sent, the call returned the error, and another call has taken
\* the lock since.
C12_Witness ==
    \E t \in Callers, u \in Callers :
        /\ t # u
        /\ call[t].keys = <<KeyCall("ctrl_press", TRUE), KeyCall("v_click", FALSE)>>
        /\ pc[t] = "idle" /\ result[t] = "V click failed"
        /\ ENIGO.holder = u /\ pc[u] = "press"

\* C13: once the singleton holds a backend it holds it for ever, and no step
\* of any call creates another one.
C13_InitializedAtMostOnce ==
    [][ENIGO.value = "Some" =>
        /\ ENIGO'.value = "Some"
        /\ \A t \in Callers : call'[t].inited => call[t].inited]_vars

\* C13 witness: with the backend created by an earlier call, one later call
\* has injected with it and another has failed in a key call; neither
\* created a backend, and the singleton still holds one.
C13_Witness ==
    \E t \in Callers, u \in Callers :
        /\ t # u
        /\ ENIGO = [holder |-> NoHolder, value |-> "Some"]
        /\ result[t] = "Ctrl release failed" /\ ~call[t].inited /\ call[t].locked
        /\ result[u] = "Ok" /\ ~call[u].inited /\ call[u].locked

\* C14: when a call sends its 'v' click, the clipboard holds the text of
\* that call, whatever other calls run at the same time.
C14_PastesOwnText ==
    [][\A t \in Callers :
        (pc[t] = "click" /\ pc'[t] = "release") => clipboard = call[t].text]_vars

\* ---- tray: handlers in parallel

\* The handler threads that have run an update_lang_checks loop.
HandlersRun == {h \in HandlerThreads : handlers[h].kind # "none"}

\* C15: when language selection handlers (menu clicks, inbound
\* notifications) have run in parallel, their set_checked calls interleaved,
\* and all have finished, exactly one language entry is checked, and its code
\* is the code of one of the handlers that ran last on their threads.
C15_ParallelHandlersLeaveOneChecked ==
    (NoHandlerRunning /\ HandlersRun # {}) =>
        /\ NumChecked = 1
        /\ CheckedCodes \subseteq {handlers[h].selected : h \in HandlersRun}

\* ---- tray: other menu ids, the window, create_tray

OtherMenuIds == MenuIds \ ({ID_open, ID_quit} \cup Codes)

\* C16: a menu event whose id is not "open", not "quit" and no catalog code
\* (the submenu's "language", an unknown or empty id) changes no check mark,
\* emits nothing, leaves the window alone and does not exit.
C16_OtherMenuIdIgnored ==
    [][\A id \in OtherMenuIds :
        (nTrayEvents' = nTrayEvents + 1 /\ lastEvent' = MenuEventOf(id)) =>
            /\ lang_items' = lang_items
            /\ emitted' = emitted /\ nLangClicks' = nLangClicks
            /\ window' = window
            /\ appState' = appState /\ appState' = "running"]_vars

\* C16 witness: after a click on "de", an event with the submenu's id: "de"
\* is still checked and the one emission is still the click's.
C16_Witness ==
    /\ nTrayEvents = 2
    /\ lastEvent = MenuEventOf(ID_language)
    /\ CheckedCodes = {<<"d", "e">>}
    /\ emitted = <<Notification("tray:language-changed", <<"d", "e">>)>>
    /\ appState = "running"

TrayPanic == appState = "panicked" /\ panicMsg = "failed to create system tray"

\* C17: a step of create_tray that fails ends create_tray there: the steps
\* before it are done and none after it (no further item, no tray icon, no
\* "language-changed" listener), and startup is aborted; the application
\* never runs without its tray and its listener.
C17_CreateTrayFailureAborts ==
    /\ TrayPanic =>
            /\ setupPc = "create_tray"
            /\ trayProgress < NumTraySteps
            /\ lang_items = BuiltItems(ItemsPushed(trayProgress))
            /\ ~trayBuilt /\ ~listening
            /\ nTrayEvents = 0 /\ emitted = <<>>
    /\ trayProgress < NumTraySteps =>
            (~trayBuilt /\ ~listening /\ appState \notin {"running", "exited"})
    /\ trayProgress \in 1..(NumTraySteps - 1) => appState = "panicked"
    /\ listening => (trayBuilt /\ Len(lang_items) = Len(LANGUAGES))
    /\ appState \in {"running", "exited"} => (trayBuilt /\ listening)

\* C17 witness: appending the second check item failed: one item was pushed,
\* no tray icon, no listener, startup panicked.
C17_Witness ==
    /\ TrayPanic
    /\ trayProgress = 6
    /\ Len(lang_items) = 1
    /\ ~trayBuilt /\ ~listening
    /\ shortcuts = {"ctrl+shift+d", "ctrl+shift+t"}

IsReveal(ev) ==
    \/ ev.kind = "menu" /\ ev.id = ID_open
    \/ ev.kind = "Click" /\ ev.button = "Left" /\ ev.button_state = "Up"

Revealed == Window(TRUE, FALSE, TRUE)

\* C19: an "open" menu click or a left-button release on the tray icon, with
\* the window existing, applies each of show, unminimize and set_focus that
\* does not fail (all three: the window is shown, not minimized, focused),
\* whichever of the others fail; a revealed window stays as it is; every
\* other event, and either event without a window, leaves the window as it
\* was.
C19_WindowReveal ==
    [][nTrayEvents' = nTrayEvents + 1 =>
        IF IsReveal(lastEvent') /\ window.exists
        THEN /\ window'.exists
             /\ window'.visible =
                    (IF "show" \in lastEvent'.failing THEN window.visible ELSE TRUE)
             /\ window'.minimized =
                    (IF "unminimize" \in lastEvent'.failing THEN window.minimized ELSE FALSE)
             /\ window'.focused =
                    (IF "set_focus" \in lastEvent'.failing THEN window.focused ELSE TRUE)
             /\ lastEvent'.failing = {} => window' = Revealed
             /\ window = Revealed => window' = Revealed
        ELSE window' = window]_vars

\* C19 witness: a left-button release on the tray icon with the window
\* minimized to the tray and show failing: the window is unminimized and
\* focused all the same.
C19_Witness ==
    /\ nTrayEvents = 2
    /\ lastEvent = [TrayIconEventOf("Click", "Left", "Up") EXCEPT !.failing = {"show"}]
    /\ window = Window(FALSE, FALSE, TRUE)

\* ---- injection: termination

====
